---- MODULE Spec2Model ----
(***************************************************************************)
(* Model of the padel booking application (src/app.py): the slots table,   *)
(* the coach session flag, and the request handlers of the JSON API.       *)
(*                                                                         *)
(* Every handler of the coach (add_slot, delete_slot, unbook_slot) and the *)
(* listing handler run one SQL statement and one commit, so each is one    *)
(* atomic action.  book_slot runs a SELECT, then an UPDATE with its        *)
(* commit, then two blocking send_email calls, and only then returns: it   *)
(* is a process with one action per step, so that other requests can run   *)
(* between its steps, as they do under a threaded or multi-process server. *)
(* The storage may fail a statement (the handler answers "DB error") or a   *)
(* commit (commit_and_close logs it and rolls back): the actions that end   *)
(* in _db take the outcome of the storage as an input, and the actions      *)
(* with the names of the handlers are the handlers over a storage that      *)
(* answers.                                                                 *)
(***************************************************************************)
EXTENDS Integers, Sequences, FiniteSets, TLC

\* ------------------------------------------------------------------ bounds
MaxSlots == 2        \* rows ever inserted; ids are 1..MaxSlots
NumBookReqs == 2     \* book_slot requests that may be in flight together

SlotIds == 1..MaxSlots
BookReqs == 1..NumBookReqs

\* ------------------------------------------------------------ value domains
None == "None"                       \* Python None, SQL NULL
Truthy(v) == v # None /\ v # ""      \* Python truthiness of an optional string

Sessions == {"browser"}

COACH_PASSWORD == "padel-secret"
COACH_EMAIL == "coach@example.com"

\* Requests to /coach_login: a GET, and POSTs of the form with a password
\* field that is right, wrong, or missing.
LoginForms ==
    {[method |-> "GET", password |-> None]}
      \cup [method : {"POST"}, password : {None, "padel-secret", "wrong"}]

\* The client behind book request r: every request in flight is one browser.
ClientNames == <<"Ana", "Bob", "Cleo", "Dina">>
ClientEmails == <<"ana@example.com", "bob@example.com", "cleo@example.com", "dina@example.com">>

ValidDate == "2024-06-01"
ValidStart == "10:00"
ValidEnd == "11:00"

\* JSON values sent as "id": a number, a string, or null / missing.
\* IdText[n] is the decimal text of the id n.
IdText == [n \in SlotIds |-> ToString(n)]
JsonInt(n) == [t |-> "int", s |-> IdText[n]]
\* HalfText[n] is the text of the JSON number n.5, which get_json reads as a float.
HalfText == [n \in SlotIds |-> IdText[n] \o ".5"]
JsonIds ==
    {JsonInt(n) : n \in SlotIds}
      \cup {[t |-> "str", s |-> IdText[1]], [t |-> "str", s |-> "abc"], [t |-> "null", s |-> ""],
            [t |-> "float", s |-> HalfText[1]]}

\* int(data.get("id")): raises on None and on a string that is not the text of
\* an integer; a float is cut to its integer part.
\* PyIntOf[j] is the integer, or 0 where int raises (no slot has the id 0).
PyIntOf ==
    [j \in JsonIds |->
        IF j.t = "null" THEN 0
        ELSE IF j.t = "float"
        THEN IF \E n \in SlotIds : HalfText[n] = j.s
             THEN CHOOSE n \in SlotIds : HalfText[n] = j.s ELSE 0
        ELSE IF \E n \in SlotIds : IdText[n] = j.s
             THEN CHOOSE n \in SlotIds : IdText[n] = j.s ELSE 0]
PyIntRaises(j) == PyIntOf[j] = 0
PyInt(j) == PyIntOf[j]

\* JSON bodies of book_slot sent by the client of request r: every id with the
\* client's name and email, and bodies with the name or the email missing or empty.
BookPayloadsOf ==
    [r \in BookReqs |->
        [id : JsonIds, name : {ClientNames[r]}, email : {ClientEmails[r]}]
          \cup {[id |-> JsonInt(1), name |-> None, email |-> ClientEmails[r]],
                [id |-> JsonInt(1), name |-> ClientNames[r], email |-> ""]}]
BookPayloads(r) == BookPayloadsOf[r]

\* JSON bodies of add_slot: complete, or with one field missing or empty.
AddPayloads ==
    {[date |-> ValidDate, start_time |-> ValidStart, end_time |-> ValidEnd],
     [date |-> None, start_time |-> ValidStart, end_time |-> ValidEnd],
     [date |-> ValidDate, start_time |-> "", end_time |-> ValidEnd],
     [date |-> ValidDate, start_time |-> ValidStart, end_time |-> None]}

\* Values of the only_available query parameter: absent, empty, or any text.
OnlyAvailableArgs == {None, "", "true"}

SmtpOutcomes == {"sent", "failed"}

\* What the storage does with the statement and the commit of a request: both
\* pass, the statement raises, or the commit raises.
DbOutcomes == {"ok", "execute_fails", "commit_fails"}

\* ------------------------------------------------------------------- state
VARIABLES
    slots,      \* the slots table: a function from the ids present to rows
    next_id,    \* the AUTOINCREMENT / SERIAL counter of the id column
    session,    \* session[s]: the coach_logged_in flag of browser session s
    req,        \* req[r]: position and local variables of book_slot request r
    last        \* the latest response that any handler has returned

vars == <<slots, next_id, session, req, last>>

\* ------------------------------------------------------------------- SQL
\* An INSERT into a table whose id is a plain rowid (INTEGER PRIMARY KEY with
\* no AUTOINCREMENT): the new id is one more than the largest id in the table.
InsertSlot_Rowid(t, id, date, start, end) ==
    LET rowid == IF DOMAIN t = {} THEN 1
                 ELSE 1 + CHOOSE m \in DOMAIN t : \A j \in DOMAIN t : j <= m
    IN t @@ (rowid :> [date |-> date, start_time |-> start, end_time |-> end,
                       status |-> "available", client_name |-> None, client_email |-> None])

\* INSERT INTO slots (date, start_time, end_time, status) VALUES (?, ?, ?, 'available')
\* id is the value that AUTOINCREMENT / SERIAL gives to the new row.
InsertSlot(t, id, date, start, end) ==
    t @@ (id :> [date |-> date, start_time |-> start, end_time |-> end,
                 status |-> "available", client_name |-> None, client_email |-> None])

\* A DELETE whose condition takes every id up to the given one.
DeleteRow_UpTo(t, id) == [i \in {j \in DOMAIN t : j > id} |-> t[i]]

\* DELETE FROM slots WHERE id=?
DeleteRow(t, id) == [i \in DOMAIN t \ {id} |-> t[i]]

\* An UPDATE that clears the client and forgets the status.
UpdateAvailable_KeepStatus(t, id) ==
    [i \in DOMAIN t |->
        IF i = id THEN [t[i] EXCEPT !.client_name = None, !.client_email = None] ELSE t[i]]

\* UPDATE slots SET status='available', client_name=NULL, client_email=NULL WHERE id=?
UpdateAvailable(t, id) ==
    [i \in DOMAIN t |->
        IF i = id
        THEN [t[i] EXCEPT !.status = "available", !.client_name = None, !.client_email = None]
        ELSE t[i]]

\* An UPDATE that stores the name and forgets the email.
UpdateBooked_NameOnly(t, id, name, email) ==
    [i \in DOMAIN t |->
        IF i = id THEN [t[i] EXCEPT !.status = "booked", !.client_name = name] ELSE t[i]]

\* UPDATE slots SET status='booked', client_name=?, client_email=? WHERE id=?
UpdateBooked(t, id, name, email) ==
    [i \in DOMAIN t |->
        IF i = id
        THEN [t[i] EXCEPT !.status = "booked", !.client_name = name, !.client_email = email]
        ELSE t[i]]

\* SELECT * FROM slots WHERE id=?  (fetch one): the row, or no row (None)
NoRow == [row |-> None]
SelectSlot(t, id) == IF id \in DOMAIN t THEN t[id] ELSE NoRow

\* A check that only looks for the row, not at its status.
SlotUnavailable_MissingOnly(t, id) == id \notin DOMAIN t

\* if not slot or slot["status"] == "booked"
SlotUnavailable(t, id) == id \notin DOMAIN t \/ t[id].status = "booked"

\* ORDER BY date, start_time: the texts compare as strings; TextRank gives the
\* position of each text of the model in that order.
TextOrder == <<"09:00", "10:00", "11:00", "2024-06-01">>
TextRank(s) == CHOOSE k \in 1..Len(TextOrder) : TextOrder[k] = s

RowBefore(t, i, j) ==
    \/ TextRank(t[i].date) < TextRank(t[j].date)
    \/ /\ t[i].date = t[j].date
       /\ \/ TextRank(t[i].start_time) < TextRank(t[j].start_time)
          \/ t[i].start_time = t[j].start_time /\ i < j

RECURSIVE OrderRows(_, _)
OrderRows(t, ids) ==
    IF ids = {} THEN <<>>
    ELSE LET first == CHOOSE i \in ids : \A j \in ids \ {i} : RowBefore(t, i, j)
         IN <<first>> \o OrderRows(t, ids \ {first})

\* A listing that ignores only_available.
SelectSlots_Unfiltered(t, only_available) == OrderRows(t, DOMAIN t)

\* The two SELECTs of api_slots.
SelectSlots(t, only_available) ==
    IF Truthy(only_available)
    THEN OrderRows(t, {i \in DOMAIN t : t[i].status = "available"})
    ELSE OrderRows(t, DOMAIN t)

\* ------------------------------------------------------------- api_slots
\* A title that shows the name of the client to every caller.
EventTitle_AlwaysName(s, is_coach) ==
    IF s.status = "booked"
    THEN IF Truthy(s.client_name) THEN "Booked" \o " -- " \o s.client_name ELSE "Booked"
    ELSE "Available"

\* The title of one calendar event (" -- " stands for the dash of the source).
EventTitle(s, is_coach) ==
    IF s.status = "booked"
    THEN IF is_coach /\ Truthy(s.client_name)
         THEN "Booked" \o " -- " \o s.client_name
         ELSE "Booked"
    ELSE "Available"

Event(id, s, is_coach) ==
    [id |-> id,
     title |-> EventTitle(s, is_coach),
     start |-> s.date \o "T" \o s.start_time,
     end |-> s.date \o "T" \o s.end_time,
     color |-> IF s.status = "available" THEN "#0091ad" ELSE "#ccc"]

ApiSlots(t, only_available, is_coach) ==
    LET ids == SelectSlots(t, only_available)
    IN [k \in 1..Len(ids) |-> Event(ids[k], t[ids[k]], is_coach)]

\* ------------------------------------------------------------- responses
Ok == [success |-> TRUE, status |-> 200]
Fail(error, status) == [success |-> FALSE, error |-> error, status |-> status]
Unauthorized == Fail("Unauthorized", 403)
Unavailable == Fail("Slot unavailable", 200)
DbError == Fail("DB error", 500)
Redirect(location) == [location |-> location, status |-> 302]
Render(template, error) == [template |-> template, error |-> error, status |-> 200]

\* The local variables of a book_slot request that is not running.
IdleReq ==
    [pc |-> "idle", slot_id |-> 0, name |-> None, email |-> None, slot |-> NoRow]

\* The response of book_slot to request r, and the mail it handed to SMTP.
BookResponse(r, resp, mails) == [op |-> "book_slot", req |-> r, resp |-> resp, mails |-> mails]

Init ==
    /\ slots = <<>>
    /\ next_id = 1
    /\ session = [s \in Sessions |-> FALSE]
    /\ req = [r \in BookReqs |-> IdleReq]
    /\ last = [op |-> "init_db"]

\* ---------------------------------------------------------------- routes
\* coach_password is what os.getenv("COACH_PASSWORD") gave at start: the
\* password of the environment, or None when the environment sets none.
coach_login_env(s, method, password, coach_password) ==
    /\ IF method = "POST" /\ password = coach_password
       THEN /\ session' = [session EXCEPT ![s] = TRUE]
            /\ last' = [op |-> "coach_login", caller |-> s, resp |-> Redirect("/coach")]
       ELSE /\ session' = session
            /\ last' = [op |-> "coach_login", caller |-> s,
                        resp |-> IF method = "POST"
                                 THEN Render("login.html", "Incorrect password.")
                                 ELSE Render("login.html", None)]
    /\ UNCHANGED <<slots, next_id, req>>

coach_login(s, method, password) == coach_login_env(s, method, password, COACH_PASSWORD)

logout(s) ==
    /\ session' = [session EXCEPT ![s] = FALSE]
    /\ last' = [op |-> "logout", caller |-> s, resp |-> Redirect("/")]
    /\ UNCHANGED <<slots, next_id, req>>

api_slots(s, only_available) ==
    /\ last' = [op |-> "api_slots", caller |-> s, only_available |-> only_available,
                resp |-> ApiSlots(slots, only_available, session[s])]
    /\ UNCHANGED <<slots, next_id, session, req>>

add_slot_db(s, data, db) ==
    /\ IF ~session[s]
       THEN /\ last' = [op |-> "add_slot", caller |-> s, resp |-> Unauthorized]
            /\ UNCHANGED <<slots, next_id>>
       ELSE IF ~Truthy(data.date) \/ ~Truthy(data.start_time) \/ ~Truthy(data.end_time)
       THEN /\ last' = [op |-> "add_slot", caller |-> s, resp |-> Fail("Missing fields", 400)]
            /\ UNCHANGED <<slots, next_id>>
       ELSE IF db = "execute_fails"
       THEN /\ last' = [op |-> "add_slot", caller |-> s, resp |-> DbError]
            /\ UNCHANGED <<slots, next_id>>
       ELSE IF db = "commit_fails"
       THEN \* the INSERT is rolled back; the counter of SQLite goes back with
            \* it, the sequence of PostgreSQL keeps the value it gave out
            /\ slots' = slots
            /\ \/ next_id' = next_id
               \/ next_id <= MaxSlots /\ next_id' = next_id + 1
            /\ last' = [op |-> "add_slot", caller |-> s, resp |-> Ok]
       ELSE /\ next_id <= MaxSlots
            /\ slots' = InsertSlot(slots, next_id, data.date, data.start_time, data.end_time)
            /\ next_id' = next_id + 1
            /\ last' = [op |-> "add_slot", caller |-> s, resp |-> Ok]
    /\ UNCHANGED <<session, req>>

add_slot(s, data) == add_slot_db(s, data, "ok")

delete_slot_db(s, slot_id, db) ==
    /\ IF ~session[s]
       THEN /\ last' = [op |-> "delete_slot", caller |-> s, slot_id |-> slot_id,
                        resp |-> Unauthorized]
            /\ slots' = slots
       ELSE IF db = "execute_fails"
       THEN /\ last' = [op |-> "delete_slot", caller |-> s, slot_id |-> slot_id,
                        resp |-> DbError]
            /\ slots' = slots
       ELSE /\ slots' = IF db = "commit_fails" THEN slots ELSE DeleteRow(slots, slot_id)
            /\ last' = [op |-> "delete_slot", caller |-> s, slot_id |-> slot_id, resp |-> Ok]
    /\ UNCHANGED <<next_id, session, req>>

delete_slot(s, slot_id) == delete_slot_db(s, slot_id, "ok")

\* An unbook_slot whose UPDATE has lost its WHERE: every row is reset.
unbook_slot_db_AllRows(s, slot_id, db) ==
    /\ IF ~session[s]
       THEN /\ last' = [op |-> "unbook_slot", caller |-> s, slot_id |-> slot_id,
                        resp |-> Unauthorized]
            /\ slots' = slots
       ELSE /\ slots' = [i \in DOMAIN slots |-> UpdateAvailable(slots, i)[i]]
            /\ last' = [op |-> "unbook_slot", caller |-> s, slot_id |-> slot_id, resp |-> Ok]
    /\ UNCHANGED <<next_id, session, req>>

unbook_slot_db(s, slot_id, db) ==
    /\ IF ~session[s]
       THEN /\ last' = [op |-> "unbook_slot", caller |-> s, slot_id |-> slot_id,
                        resp |-> Unauthorized]
            /\ slots' = slots
       ELSE IF db = "execute_fails"
       THEN /\ last' = [op |-> "unbook_slot", caller |-> s, slot_id |-> slot_id,
                        resp |-> DbError]
            /\ slots' = slots
       ELSE /\ slots' = IF db = "commit_fails" THEN slots ELSE UpdateAvailable(slots, slot_id)
            /\ last' = [op |-> "unbook_slot", caller |-> s, slot_id |-> slot_id, resp |-> Ok]
    /\ UNCHANGED <<next_id, session, req>>

\* An unbook_slot without the check of the session.
unbook_slot_NoAuth(s, slot_id) ==
    /\ slots' = UpdateAvailable(slots, slot_id)
    /\ last' = [op |-> "unbook_slot", caller |-> s, slot_id |-> slot_id, resp |-> Ok]
    /\ UNCHANGED <<next_id, session, req>>

unbook_slot(s, slot_id) == unbook_slot_db(s, slot_id, "ok")

\* ------------------------------------------------------------- book_slot
\* Lines 347-371: parse and validate the body, SELECT the slot, check it.
\* The request returns here, or goes on to its UPDATE.
book_slot_select_db(r, data, db) ==
    /\ req[r].pc = "idle"
    /\ IF PyIntRaises(data.id)
       THEN /\ last' = BookResponse(r, Fail("Invalid slot id", 400), <<>>)
            /\ req' = req
       ELSE IF ~Truthy(data.name) \/ ~Truthy(data.email)
       THEN /\ last' = BookResponse(r, Fail("Missing name/email", 400), <<>>)
            /\ req' = req
       ELSE IF db = "execute_fails"
       THEN /\ last' = BookResponse(r, DbError, <<>>)
            /\ req' = req
       ELSE IF SlotUnavailable(slots, PyInt(data.id))
       THEN /\ last' = BookResponse(r, Unavailable, <<>>)
            /\ req' = req
       ELSE /\ req' = [req EXCEPT ![r] =
                 [pc |-> "update", slot_id |-> PyInt(data.id),
                  name |-> data.name, email |-> data.email,
                  slot |-> SelectSlot(slots, PyInt(data.id))]]
            /\ last' = last
    /\ UNCHANGED <<slots, next_id, session>>

book_slot_select(r, data) == book_slot_select_db(r, data, "ok")

\* Lines 373-376: the UPDATE and its commit.  A statement that raises takes
\* the request to the handler of lines 408-414; a commit that raises is
\* caught inside commit_and_close, and the request goes on to its emails.
book_slot_update_db(r, db) ==
    /\ req[r].pc = "update"
    /\ IF db = "execute_fails"
       THEN /\ slots' = slots
            /\ req' = [req EXCEPT ![r] = IdleReq]
            /\ last' = BookResponse(r, DbError, <<>>)
       ELSE /\ slots' = IF db = "commit_fails"
                        THEN slots
                        ELSE UpdateBooked(slots, req[r].slot_id, req[r].name, req[r].email)
            /\ req' = [req EXCEPT ![r].pc = "notify"]
            /\ last' = last
    /\ UNCHANGED <<next_id, session>>

book_slot_update(r) == book_slot_update_db(r, "ok")

\* send_email: the message is handed to SMTP and the call blocks until SMTP has
\* answered; an exception of the transport is caught and logged, never raised.
send_email(mails, to_email, subject, outcome) ==
    Append(mails, [to |-> to_email, subject |-> subject, outcome |-> outcome])

\* A notification whose failure reaches the handler of book_slot as an
\* exception: the request answers with the error of lines 408-414.
book_slot_notify_Raises(r, client_outcome, coach_outcome) ==
    /\ req[r].pc = "notify"
    /\ LET sent1 == send_email(<<>>, req[r].email,
                               "Padel Training Confirmation", client_outcome)
           sent2 == send_email(sent1, COACH_EMAIL, "New Padel Booking", coach_outcome)
       IN IF client_outcome = "failed"
          THEN last' = BookResponse(r, Fail("DB error", 500), sent1)
          ELSE IF coach_outcome = "failed"
          THEN last' = BookResponse(r, Fail("DB error", 500), sent2)
          ELSE last' = BookResponse(r, Ok, sent2)
    /\ req' = [req EXCEPT ![r] = IdleReq]
    /\ UNCHANGED <<slots, next_id, session>>

\* Lines 378-407: the two send_email calls, one after the other, and then the
\* response.  Nothing else of the program is read or written by these lines.
book_slot_notify(r, client_outcome, coach_outcome) ==
    /\ req[r].pc = "notify"
    /\ LET sent1 == send_email(<<>>, req[r].email,
                               "Padel Training Confirmation", client_outcome)
           sent2 == send_email(sent1, COACH_EMAIL, "New Padel Booking", coach_outcome)
       IN last' = BookResponse(r, Ok, sent2)
    /\ req' = [req EXCEPT ![r] = IdleReq]
    /\ UNCHANGED <<slots, next_id, session>>

\* ------------------------------------------------------- specifications
\* Every handler that writes, with every body, the bookings running together.
Next ==
    \/ \E s \in Sessions, f \in LoginForms : coach_login(s, f.method, f.password)
    \/ \E s \in Sessions : logout(s)
    \/ \E s \in Sessions, d \in AddPayloads : add_slot(s, d)
    \/ \E s \in Sessions, i \in SlotIds : delete_slot(s, i)
    \/ \E s \in Sessions, i \in SlotIds : unbook_slot(s, i)
    \/ \E r \in BookReqs : \E d \in BookPayloads(r) : book_slot_select(r, d)
    \/ \E r \in BookReqs : book_slot_update(r)
    \/ \E r \in BookReqs, o1 \in SmtpOutcomes, o2 \in SmtpOutcomes : book_slot_notify(r, o1, o2)

Spec == Init /\ [][Next]_vars

\* The same handlers with the same bodies, one booking at a time: a booking
\* starts when no other booking is between its SELECT and its response.  The
\* requests of the coach still run between the steps of the booking.
NoBookingRunning == \A r \in BookReqs : req[r].pc = "idle"

NextSerial ==
    \/ \E s \in Sessions, f \in LoginForms : coach_login(s, f.method, f.password)
    \/ \E s \in Sessions : logout(s)
    \/ \E s \in Sessions, d \in AddPayloads : add_slot(s, d)
    \/ \E s \in Sessions, i \in SlotIds : delete_slot(s, i)
    \/ \E s \in Sessions, i \in SlotIds : unbook_slot(s, i)
    \/ \E r \in BookReqs : \E d \in BookPayloads(r) : NoBookingRunning /\ book_slot_select(r, d)
    \/ \E r \in BookReqs : book_slot_update(r)
    \/ \E r \in BookReqs, o1 \in SmtpOutcomes, o2 \in SmtpOutcomes : book_slot_notify(r, o1, o2)

SpecSerial == Init /\ [][NextSerial]_vars

\* The calendar: the listing handler, run between well-formed requests of the
\* coach and of the clients, one booking at a time.
ValidBooking(r, i) == [id |-> JsonInt(i), name |-> ClientNames[r], email |-> ClientEmails[r]]
ValidSlot == [date |-> ValidDate, start_time |-> ValidStart, end_time |-> ValidEnd]

NextSlots ==
    \/ \E s \in Sessions : coach_login(s, "POST", COACH_PASSWORD)
    \/ \E s \in Sessions : logout(s)
    \/ \E s \in Sessions, a \in OnlyAvailableArgs : api_slots(s, a)
    \/ \E s \in Sessions : add_slot(s, ValidSlot)
    \/ \E s \in Sessions, i \in SlotIds : delete_slot(s, i)
    \/ \E s \in Sessions, i \in SlotIds : unbook_slot(s, i)
    \/ \E r \in BookReqs, i \in SlotIds : NoBookingRunning /\ book_slot_select(r, ValidBooking(r, i))
    \/ \E r \in BookReqs : book_slot_update(r)
    \/ \E r \in BookReqs : book_slot_notify(r, "sent", "sent")

SpecSlots == Init /\ [][NextSlots]_vars

\* The race: the table holds one slot, available, and the clients send
\* bookings of it that run together, their steps in any order.
InitRace ==
    /\ \E i \in SlotIds :
          /\ slots = InsertSlot(<<>>, i, ValidDate, ValidStart, ValidEnd)
          /\ next_id \in (i + 1)..(MaxSlots + 1)
    /\ session \in [Sessions -> BOOLEAN]
    /\ req = [r \in BookReqs |-> IdleReq]
    /\ last = [op |-> "add_slot", caller |-> CHOOSE s \in Sessions : TRUE, resp |-> Ok]

NextRace ==
    \/ \E r \in BookReqs, i \in DOMAIN slots : book_slot_select(r, ValidBooking(r, i))
    \/ \E r \in BookReqs : book_slot_update(r)
    \/ \E r \in BookReqs, o1 \in SmtpOutcomes, o2 \in SmtpOutcomes : book_slot_notify(r, o1, o2)

SpecRace == InitRace /\ [][NextRace]_vars

\* The rebooking: the table holds one slot, booked by the first client; the
\* coach unbooks, and the clients book, one booking at a time.
InitRebook ==
    /\ \E i \in SlotIds :
          /\ slots = UpdateBooked(InsertSlot(<<>>, i, ValidDate, ValidStart, ValidEnd),
                                  i, ClientNames[1], ClientEmails[1])
          /\ next_id \in (i + 1)..(MaxSlots + 1)
    /\ session \in [Sessions -> BOOLEAN]
    /\ req = [r \in BookReqs |-> IdleReq]
    /\ last \in {BookResponse(1, Ok, send_email(send_email(<<>>, ClientEmails[1],
                        "Padel Training Confirmation", o1), COACH_EMAIL, "New Padel Booking", o2)) :
                    o1 \in SmtpOutcomes, o2 \in SmtpOutcomes}

NextRebook ==
    \/ \E s \in Sessions, f \in LoginForms : coach_login(s, f.method, f.password)
    \/ \E s \in Sessions : logout(s)
    \/ \E s \in Sessions, i \in SlotIds : unbook_slot(s, i)
    \/ \E r \in BookReqs, i \in SlotIds : NoBookingRunning /\ book_slot_select(r, ValidBooking(r, i))
    \/ \E r \in BookReqs : book_slot_update(r)
    \/ \E r \in BookReqs, o1 \in SmtpOutcomes, o2 \in SmtpOutcomes : book_slot_notify(r, o1, o2)

SpecRebook == InitRebook /\ [][NextRebook]_vars

\* The failing storage: the handlers that write, one booking at a time, each
\* statement and each commit passing or raising.
NextStorage ==
    \/ \E s \in Sessions, f \in LoginForms : coach_login(s, f.method, f.password)
    \/ \E s \in Sessions : logout(s)
    \/ \E s \in Sessions, d \in AddPayloads, db \in DbOutcomes : add_slot_db(s, d, db)
    \/ \E s \in Sessions, i \in SlotIds, db \in DbOutcomes : delete_slot_db(s, i, db)
    \/ \E s \in Sessions, i \in SlotIds, db \in DbOutcomes : unbook_slot_db(s, i, db)
    \/ \E r \in BookReqs, db \in {"ok", "execute_fails"} : \E d \in BookPayloads(r) :
          NoBookingRunning /\ book_slot_select_db(r, d, db)
    \/ \E r \in BookReqs, db \in DbOutcomes : book_slot_update_db(r, db)
    \/ \E r \in BookReqs, o1 \in SmtpOutcomes, o2 \in SmtpOutcomes : book_slot_notify(r, o1, o2)

SpecStorage == Init /\ [][NextStorage]_vars

\* The deployment whose environment has no COACH_PASSWORD: the login, the
\* logout and the requests of the coach.
NextNoPassword ==
    \/ \E s \in Sessions, f \in LoginForms : coach_login_env(s, f.method, f.password, None)
    \/ \E s \in Sessions : logout(s)
    \/ \E s \in Sessions, d \in AddPayloads : add_slot(s, d)
    \/ \E s \in Sessions, i \in SlotIds : delete_slot(s, i)
    \/ \E s \in Sessions, i \in SlotIds : unbook_slot(s, i)

SpecNoPassword == Init /\ [][NextNoPassword]_vars

\* ------------------------------------------------------------------ claims
Booked(i, r) ==
    /\ i \in DOMAIN slots
    /\ slots[i].status = "booked"
    /\ slots[i].client_name = ClientNames[r]
    /\ slots[i].client_email = ClientEmails[r]

\* C1: of the bookings of one available slot that run together, one returns
\* success and every other one returns the "Slot unavailable" result: no two
\* of them are past their UPDATE on the way to a success response, a request
\* that is past its UPDATE or whose success is the latest response has its
\* name and its email in the row, and a response without success is the
\* "Slot unavailable" result.
ConcurrentBookingsExclusive ==
    /\ \A r \in BookReqs, q \in BookReqs :
          r # q => ~(req[r].pc = "notify" /\ req[q].pc = "notify")
    /\ \A r \in BookReqs : req[r].pc = "notify" => Booked(req[r].slot_id, r)
    /\ last.op = "book_slot" =>
          IF last.resp.success
          THEN \E i \in DOMAIN slots : Booked(i, last.req)
          ELSE last.resp = Unavailable

\* C2: every stored slot is booked exactly when its client_name and its
\* client_email are both set, and the two are set or null together.
StatusMatchesClient ==
    \A i \in DOMAIN slots :
        /\ slots[i].status \in {"available", "booked"}
        /\ (slots[i].status = "booked") <=>
               (slots[i].client_name # None /\ slots[i].client_email # None)
        /\ (slots[i].client_name = None) <=> (slots[i].client_email = None)

StatusMatchesClientWitness ==
    /\ \E i \in DOMAIN slots : \E r \in BookReqs : Booked(i, r)
    /\ \E j \in DOMAIN slots : slots[j].status = "available"
    /\ last.op = "unbook_slot" /\ last.resp = Ok
    /\ last.slot_id \in DOMAIN slots

\* C3: add_slot, delete_slot and unbook_slot called from a session without
\* the coach flag answer Unauthorized with success false, and create, delete
\* and modify no row.
UnauthorizedChangesNothing ==
    [][\A s \in Sessions :
          ~session[s] =>
             /\ \A d \in AddPayloads :
                   add_slot(s, d) =>
                      last'.resp = Unauthorized /\ slots' = slots /\ next_id' = next_id
             /\ \A i \in SlotIds :
                   delete_slot(s, i) \/ unbook_slot(s, i) =>
                      last'.resp = Unauthorized /\ slots' = slots /\ next_id' = next_id]_vars

UnauthorizedWitness ==
    /\ last.op \in {"delete_slot", "unbook_slot"}
    /\ last.resp = Unauthorized
    /\ ~session[last.caller]
    /\ \E r \in BookReqs : Booked(last.slot_id, r)

\* C4: the response of a booking does not wait for the emails: no request is
\* ever in the position where its update is committed and its response is
\* still to come, behind the two calls of SMTP.
ResponseBeforeEmail ==
    \A r \in BookReqs : req[r].pc # "notify"

\* C5: when the email to the client, the email to the coach, or both fail
\* after the update of a booking is committed, no row changes (the slot stays
\* booked as committed) and the request returns success true.
SomeMailFailed(q) == \E k \in 1..Len(q.mails) : q.mails[k].outcome = "failed"

NotificationFailureHarmless ==
    [][\A r \in BookReqs :
          (req[r].pc = "notify" /\ req'[r].pc = "idle" /\ SomeMailFailed(last')) =>
             /\ slots' = slots
             /\ last'.op = "book_slot"
             /\ last'.req = r
             /\ last'.resp = Ok]_vars

NotificationFailureWitness ==
    /\ last.op = "book_slot"
    /\ last.resp = Ok
    /\ Len(last.mails) = 2
    /\ \A k \in 1..2 : last.mails[k].outcome = "failed"
    /\ \E i \in DOMAIN slots : Booked(i, last.req)

\* C6: when the coach unbooks a slot booked by a client A, a booking of it by
\* another client B then passes the availability check, its update leaves the
\* row booked with the name and the email of B and nothing of A, and it
\* returns success.
RebookOverwrites ==
    [][/\ \A s \in Sessions, i \in SlotIds :
            (unbook_slot(s, i) /\ session[s] /\ i \in DOMAIN slots /\ slots[i].status = "booked") =>
               \A b \in BookReqs :
                  ClientNames[b] # slots[i].client_name =>
                     /\ ~SlotUnavailable(slots', i)
                     /\ UpdateBooked(slots', i, ClientNames[b], ClientEmails[b])[i] =
                            [date |-> slots[i].date, start_time |-> slots[i].start_time,
                             end_time |-> slots[i].end_time, status |-> "booked",
                             client_name |-> ClientNames[b], client_email |-> ClientEmails[b]]
       /\ \A b \in BookReqs :
            (req[b].pc = "update" /\ req'[b].pc = "notify" /\ req[b].slot_id \in DOMAIN slots) =>
               /\ req[b].name = ClientNames[b] /\ req[b].email = ClientEmails[b]
               /\ slots' = [slots EXCEPT ![req[b].slot_id] =
                     [date |-> @.date, start_time |-> @.start_time, end_time |-> @.end_time,
                      status |-> "booked",
                      client_name |-> ClientNames[b], client_email |-> ClientEmails[b]]]
       /\ \A b \in BookReqs :
            (req[b].pc = "notify" /\ req'[b].pc = "idle") =>
               last'.op = "book_slot" /\ last'.req = b /\ last'.resp = Ok]_vars

\* The slot that the first client held is booked by another client, whose
\* request has just returned success.
RebookWitness ==
    /\ last.op = "book_slot"
    /\ last.resp = Ok
    /\ last.req # 1
    /\ \E i \in DOMAIN slots : Booked(i, last.req)

\* C7: delete_slot by the coach returns success true whether or not the id is
\* in the table; on an id that is not in the table it leaves the table as it
\* was, it never touches another row, and deleting the same id again changes
\* nothing more.
DeleteIdempotent ==
    [][\A s \in Sessions, i \in SlotIds :
          (delete_slot(s, i) /\ session[s]) =>
             /\ last'.resp = Ok
             /\ i \notin DOMAIN slots => slots' = slots
             /\ DOMAIN slots' = DOMAIN slots \ {i}
             /\ \A j \in DOMAIN slots' : slots'[j] = slots[j]
             /\ DeleteRow(slots', i) = slots']_vars

DeleteAbsentWitness ==
    /\ last.op = "delete_slot" /\ last.resp = Ok
    /\ last.slot_id >= next_id
    /\ \E i \in DOMAIN slots : \E r \in BookReqs : Booked(i, r)

\* C8: the listing with only_available set holds exactly the slots stored as
\* available, each once, and so no booked slot; without only_available it
\* holds every slot, each once.
EventIds(events) == {events[k].id : k \in 1..Len(events)}

ListingFilter ==
    [][\A s \in Sessions, a \in OnlyAvailableArgs :
          api_slots(s, a) =>
             /\ Len(last'.resp) = Cardinality(EventIds(last'.resp))
             /\ Truthy(a) =>
                   /\ EventIds(last'.resp) = {i \in DOMAIN slots : slots[i].status = "available"}
                   /\ \A i \in EventIds(last'.resp) : slots[i].status # "booked"
             /\ ~Truthy(a) => EventIds(last'.resp) = DOMAIN slots]_vars

ListingFilterWitness ==
    /\ last.op = "api_slots"
    /\ Truthy(last.only_available)
    /\ Len(last.resp) = 1
    /\ \E i \in DOMAIN slots \ EventIds(last.resp) : slots[i].status = "booked"
    /\ \A i \in EventIds(last.resp) : i \in DOMAIN slots /\ slots[i].status = "available"

\* C9: for one table and one filter, the listing of a coach session and the
\* listing of any other caller hold the same events with the same id, start,
\* end and color; only the titles of booked slots differ: the other caller
\* reads "Booked", whoever the client is, and the coach reads the name of the
\* client after it.
Scrubbed(t) ==
    [i \in DOMAIN t |->
        IF t[i].status = "booked"
        THEN [t[i] EXCEPT !.client_name = "someone", !.client_email = "someone@example.com"]
        ELSE t[i]]

ListingHidesClient ==
    [][\A s \in Sessions, a \in OnlyAvailableArgs :
          api_slots(s, a) =>
             LET mine == last'.resp
                 coach == ApiSlots(slots, a, TRUE)
                 other == ApiSlots(slots, a, FALSE)
             IN /\ mine = IF session[s] THEN coach ELSE other
                /\ Len(coach) = Len(other)
                /\ other = ApiSlots(Scrubbed(slots), a, FALSE)
                /\ \A k \in 1..Len(coach) :
                      /\ coach[k].id = other[k].id
                      /\ coach[k].start = other[k].start
                      /\ coach[k].end = other[k].end
                      /\ coach[k].color = other[k].color
                      /\ IF slots[coach[k].id].status = "booked"
                         THEN /\ other[k].title = "Booked"
                              /\ coach[k].title =
                                    "Booked" \o " -- " \o slots[coach[k].id].client_name
                         ELSE coach[k].title = other[k].title]_vars

ListingHidesClientWitness ==
    /\ last.op = "api_slots"
    /\ session[last.caller]
    /\ \E k \in 1..Len(last.resp) : \E r \in BookReqs :
          /\ last.resp[k].title = "Booked" \o " -- " \o ClientNames[r]
          /\ Booked(last.resp[k].id, r)

\* C10: a booking with a valid body of a slot that is not in the table, or
\* that is stored as booked when the request runs, returns the "Slot
\* unavailable" result with success false and status 200, changes no row, and
\* sends no email.
BookUnavailableIsBenign ==
    [][\A r \in BookReqs, i \in SlotIds :
          (/\ (i \notin DOMAIN slots \/ slots[i].status = "booked")
           /\ book_slot_select(r, ValidBooking(r, i))) =>
             /\ req' = req
             /\ last' = BookResponse(r, [success |-> FALSE, error |-> "Slot unavailable",
                                         status |-> 200], <<>>)
             /\ slots' = slots]_vars

BookUnavailableWitness ==
    /\ last.op = "book_slot"
    /\ last.resp = Unavailable
    /\ last.mails = <<>>
    /\ \E i \in DOMAIN slots : \E q \in BookReqs \ {last.req} : Booked(i, q)
    /\ \A i \in DOMAIN slots : ~Booked(i, last.req)
    /\ \E i \in SlotIds : i \notin DOMAIN slots

\* C11: whenever a booking applies its UPDATE on the way to its success
\* response, the row of its id is in the table with status available, and the
\* committed update leaves that row booked with the name and the email of the
\* request; so a booking whose slot was deleted after its SELECT does not go
\* on to success.
SuccessMeansRowBooked ==
    [][\A r \in BookReqs :
          (req[r].pc = "update" /\ req'[r].pc = "notify") =>
             /\ req[r].slot_id \in DOMAIN slots
             /\ slots[req[r].slot_id].status = "available"
             /\ req[r].slot_id \in DOMAIN slots'
             /\ slots'[req[r].slot_id].status = "booked"
             /\ slots'[req[r].slot_id].client_name = req[r].name
             /\ slots'[req[r].slot_id].client_email = req[r].email]_vars

\* C12: a request of the coach whose commit fails answers with success false,
\* and a booking whose commit fails answers with success false and goes on to
\* no email.
CommitFailureReported ==
    [][/\ \A s \in Sessions, d \in AddPayloads :
            (/\ session[s]
             /\ Truthy(d.date) /\ Truthy(d.start_time) /\ Truthy(d.end_time)
             /\ add_slot_db(s, d, "commit_fails")) => ~last'.resp.success
       /\ \A s \in Sessions, i \in SlotIds :
            (session[s] /\ (delete_slot_db(s, i, "commit_fails")
                            \/ unbook_slot_db(s, i, "commit_fails"))) => ~last'.resp.success
       /\ \A r \in BookReqs :
            book_slot_update_db(r, "commit_fails") =>
               /\ req'[r].pc = "idle"
               /\ last'.op = "book_slot" /\ last'.req = r
               /\ ~last'.resp.success
               /\ last'.mails = <<>>]_vars

\* C13: emails are sent only by a booking on its way to success true, and
\* only after its update is committed and its connection closed: a request
\* reaches its emails only by a step that leaves the table with its UPDATE
\* applied; the step that sends them sends exactly two, the first to the
\* email of the request and the second to the coach, and answers success
\* true; no other step sends any, so a booking that answers invalid input,
\* unavailable or a storage failure sends none.
IsNotifyStep(r) == req[r].pc = "notify" /\ req'[r].pc = "idle"

NotifyOnlyAfterCommit ==
    [][/\ \A r \in BookReqs :
            (req[r].pc = "update" /\ req'[r].pc = "notify") =>
               slots' = UpdateBooked(slots, req[r].slot_id, req[r].name, req[r].email)
       /\ \A r \in BookReqs :
            IsNotifyStep(r) =>
               /\ last'.op = "book_slot" /\ last'.req = r /\ last'.resp = Ok
               /\ Len(last'.mails) = 2
               /\ last'.mails[1].to = req[r].email
               /\ last'.mails[2].to = COACH_EMAIL
       /\ (\A r \in BookReqs : ~IsNotifyStep(r)) =>
               \/ last' = last
               \/ last'.op # "book_slot"
               \/ last'.mails = <<>>
       /\ (last'.op = "book_slot" /\ ~last'.resp.success) => last'.mails = <<>>]_vars

\* C14: a request with invalid input changes no row and sends no email.
\* add_slot of the coach with date, start_time or end_time missing or empty
\* inserts nothing and answers without success; book_slot with an id that is
\* not an integer (null, a text that is not a number, a number with a
\* fraction), or with the name or the email missing or empty, answers without
\* success at once, with no email, and never goes on to its UPDATE.
NotAnInteger(j) == j.t \in {"null", "float"} \/ ~(\E n \in SlotIds : IdText[n] = j.s)

InvalidInputChangesNothing ==
    [][/\ \A s \in Sessions, d \in AddPayloads :
            (/\ session[s]
             /\ ~Truthy(d.date) \/ ~Truthy(d.start_time) \/ ~Truthy(d.end_time)
             /\ add_slot(s, d)) =>
               slots' = slots /\ next_id' = next_id /\ ~last'.resp.success
       /\ \A r \in BookReqs : \A d \in BookPayloads(r) :
            (/\ NotAnInteger(d.id) \/ ~Truthy(d.name) \/ ~Truthy(d.email)
             /\ book_slot_select(r, d)) =>
               /\ slots' = slots
               /\ req' = req
               /\ last'.op = "book_slot" /\ last'.req = r
               /\ ~last'.resp.success
               /\ last'.mails = <<>>]_vars

\* C15: unbook_slot by the coach leaves the row of an id that is in the table
\* available with both client columns null, whatever its status was, and
\* with its date and its times as they were; it changes no other row and
\* adds or removes none; on an id that is not in the table it changes
\* nothing; and unbooking the same id again changes nothing more.
UnbookResets ==
    [][\A s \in Sessions, i \in SlotIds :
          (session[s] /\ unbook_slot(s, i)) =>
             /\ DOMAIN slots' = DOMAIN slots
             /\ next_id' = next_id
             /\ i \in DOMAIN slots =>
                   slots'[i] = [date |-> slots[i].date, start_time |-> slots[i].start_time,
                                end_time |-> slots[i].end_time, status |-> "available",
                                client_name |-> None, client_email |-> None]
             /\ \A j \in DOMAIN slots \ {i} : slots'[j] = slots[j]
             /\ i \notin DOMAIN slots => slots' = slots
             /\ UpdateAvailable(slots', i) = slots']_vars

UnbookResetsWitness ==
    /\ last.op = "unbook_slot" /\ last.resp = Ok
    /\ session[last.caller]
    /\ last.slot_id \in DOMAIN slots
    /\ slots[last.slot_id].status = "available"
    /\ slots[last.slot_id].client_name = None
    /\ \E j \in DOMAIN slots \ {last.slot_id} : \E r \in BookReqs : Booked(j, r)

\* C16: a session gets the coach flag only by a POST of coach_login that
\* submits the configured password: a login with any other password, or with
\* no password at all, or a GET, does not set the flag; logout clears it; and
\* a session without the flag gets Unauthorized from add_slot, delete_slot and
\* unbook_slot.  Stated for the deployment that configures no password.
CoachOnlyByPassword ==
    [][\A s \in Sessions :
          /\ \A f \in LoginForms :
                (/\ ~session[s]
                 /\ f.method # "POST" \/ f.password = None
                 /\ coach_login_env(s, f.method, f.password, None)) => ~session'[s]
          /\ logout(s) => ~session'[s]
          /\ (~session[s] /\ session'[s]) =>
                \E f \in LoginForms :
                    /\ f.method = "POST" /\ f.password # None
                    /\ coach_login_env(s, f.method, f.password, None)
          /\ ~session[s] =>
                /\ \A d \in AddPayloads : add_slot(s, d) => last'.resp = Unauthorized
                /\ \A i \in SlotIds :
                      delete_slot(s, i) \/ unbook_slot(s, i) => last'.resp = Unauthorized]_vars

\* C17: the ids of the slots are stable and never used again: every id in
\* the table was given out by the counter, the counter never goes back, a new
\* row gets an id that the counter had not given out before (so never the id
\* of a deleted row); the UPDATE of book_slot and unbook_slot add no row,
\* remove no row and change no row but the row of their id, so a booking
\* that carries the id of a deleted slot books no other slot.
IdsNeverReused ==
    [][/\ \A i \in DOMAIN slots : i < next_id
       /\ next_id' >= next_id
       /\ \A i \in DOMAIN slots' \ DOMAIN slots : i >= next_id /\ i < next_id'
       /\ \A r \in BookReqs :
            (req[r].pc = "update" /\ req'[r].pc = "notify") =>
               /\ DOMAIN slots' = DOMAIN slots
               /\ \A j \in DOMAIN slots \ {req[r].slot_id} : slots'[j] = slots[j]
       /\ \A s \in Sessions, i \in SlotIds :
            unbook_slot(s, i) =>
               /\ DOMAIN slots' = DOMAIN slots
               /\ \A j \in DOMAIN slots \ {i} : slots'[j] = slots[j]]_vars

\* Slot 1 was deleted while a booking of it was between its SELECT and its
\* UPDATE; the next add_slot made slot 2, and the UPDATE of the booking has
\* run and left slot 2 as it was.
IdsNeverReusedWitness ==
    /\ last.op = "add_slot" /\ last.resp = Ok
    /\ DOMAIN slots = {2}
    /\ slots[2].status = "available"
    /\ \E r \in BookReqs : req[r].pc = "notify" /\ req[r].slot_id = 1

====
